---- MODULE Spec2Model ----
(***************************************************************************)
(* Verification model of the qemuweb sidecar (packages/sidecar/src):       *)
(*   - frame.rs      FrameBuffer, the ring buffer of frames; Frame, its    *)
(*                   size check and its pixel format conversions           *)
(*   - server.rs     SidecarServer: accept loop, per-connection tasks,     *)
(*                   client registry, message dispatch, broadcast          *)
(*   - transport.rs  FpsTracker                                            *)
(*   - wasm.rs       WasmSidecar: the browser-side connection state        *)
(* Each part has its own specification over the shared variables; the      *)
(* parts a specification does not drive stay idle.                         *)
(***************************************************************************)
EXTENDS Integers, Sequences, FiniteSets, TLC

VARIABLES
    \* ---- frame.rs: struct FrameBuffer
    capacity,       \* FrameBuffer.capacity
    frames,         \* FrameBuffer.frames : Vec<Option<Frame>>, indexed 0..capacity-1
    write_index,    \* FrameBuffer.write_index
    read_index,     \* FrameBuffer.read_index
    ret,            \* the last call on the buffer and what it returned
    pushed,         \* history: frames pushed since the buffer was new / cleared
    popped,         \* history: frames pop() returned, in order
    results,        \* history: the bool each push returned, in order
    evicted,        \* history: frames the read cursor skipped in a push
    \* ---- server.rs: SidecarServer, ServerState, tasks
    started,        \* "new" | "failed" | "ok": how start() ended, if called
    shutdown_tx,    \* SidecarServer.shutdown_tx is Some
    acceptPc,       \* the spawned accept task: "none" | "spawned" | "loop" | "done"
    acceptSig,      \* a shutdown message is pending for the accept task's receiver
    max_clients,    \* ServerConfig.max_clients
    clients,        \* ServerState.clients : HashMap<u64, Client>
    next_client_id, \* ServerState.next_client_id
    pc,             \* per connection: where its handle_connection task is
    cid,            \* per connection: the ClientId add_client returned (0: none)
    connSig,        \* per connection: a shutdown message is pending for its receiver
    fwd,            \* per connection: its forward_task
    queue,          \* per connection: the mpsc channel tx -> rx
    resp,           \* per connection: the response process_message holds
                    \* between its write-locked and its read-locked part
    bcast,          \* per broadcast_frame call: its frame and its progress
    bret,           \* per broadcast_frame call: what it returned
    observe,        \* whether the two histories below are kept in this run
    enq,            \* history, per connection: messages tx.send accepted
    wire,           \* history, per connection: messages ws_tx.send took
    inbound,        \* the last inbound item a connection task received
    nmsg,           \* inbound items received so far, over all connections
    nbc,            \* broadcast_frame calls so far
    \* ---- frame.rs: struct Frame
    frm,            \* the Frame at hand: metadata and data
    fret,           \* the last call on the frame and what it returned
    \* ---- transport.rs: struct FpsTracker
    trk,            \* the FpsTracker: timestamps and max_samples
    trk_op,         \* the last call on the tracker
    trk_hist,       \* history: timestamps recorded since new() / clear()
    nrec,           \* record() calls so far
    \* ---- wasm.rs: struct WasmSidecar and its WebSocket
    ws,             \* WasmSidecar.ws is Some
    state,          \* WasmSidecar.state : ConnectionState
    state_clone,    \* the Rc<RefCell<ConnectionState>> the closures of the
                    \* latest connect() share
    socket,         \* the browser's WebSocket of the latest connect()
    state_callback, \* WasmSidecar.state_callback is Some
    callback_clone, \* the state callback the closures of the latest
                    \* connect() took a clone of, if any
    notified,       \* history: the state names passed to the state callback
    wlast,          \* the last call or socket event
    nev             \* calls and socket events so far

bufvars == <<capacity, frames, write_index, read_index, ret, pushed, popped,
             results, evicted>>
srvvars == <<started, shutdown_tx, acceptPc, acceptSig, max_clients, clients,
             next_client_id, pc, cid, connSig, fwd, queue>>
dispvars == <<resp, bcast, bret, observe, enq, wire, inbound, nmsg, nbc>>
frmvars == <<frm, fret>>
trkvars == <<trk, trk_op, trk_hist, nrec>>
wasmvars == <<ws, state, state_clone, socket, state_callback, callback_clone,
              notified, wlast, nev>>
vars == <<bufvars, srvvars, dispvars, frmvars, trkvars, wasmvars>>

\* ---------------------------------------------------------------- bounds
MaxCap == 3        \* capacities 1..MaxCap are explored
MaxPushes == 5     \* pushes per buffer lifetime
MaxConns == 2      \* connection attempts the listener hands out
MaxQueue == 2      \* messages waiting in one connection's channel
MaxMaxClients == 1 \* max_clients is drawn from 1..MaxMaxClients
MaxMsgs == 2       \* inbound items the connections receive in one run
MaxBroadcasts == 1 \* broadcast_frame calls in one run
MaxData == 4       \* bytes in a frame's payload

\* ------------------------------------------------------- Option<Frame>
None == <<>>
Some(f) == <<f>>

\* ======================================================================
\* frame.rs : FrameBuffer
\* ======================================================================

\* The cursor advance, without the wrap at capacity
NextIndexNoWrap(i) == i + 1

\* (i + 1) % self.capacity, the cursor advance used by push and pop
NextIndex(i) == (i + 1) % capacity

\* FrameBuffer::len
len ==
    IF write_index >= read_index
    THEN write_index - read_index
    ELSE capacity - read_index + write_index

\* FrameBuffer::is_empty
is_empty == read_index = write_index

\* The frames pop() would return from here on, oldest first: the slots from
\* the read cursor up to, not including, the write cursor.
RECURSIVE LiveFrom(_, _)
LiveFrom(i, n) ==
    IF n = 0 THEN <<>>
    ELSE <<frames[i]>> \o LiveFrom((i + 1) % capacity, n - 1)
Contents == LiveFrom(read_index, len)

\* FrameBuffer::new(capacity), with the histories empty
new(c) ==
    /\ capacity = c
    /\ frames = [i \in 0..(c - 1) |-> None]
    /\ write_index = 0
    /\ read_index = 0
    /\ ret = [op |-> "new", ok |-> TRUE, frame |-> None]
    /\ pushed = <<>>
    /\ popped = <<>>
    /\ results = <<>>
    /\ evicted = {}

\* The test of push that decides whether a frame is dropped: the advanced
\* write cursor met the read cursor and the slot just written holds a frame.
PushDrops(written, w, prev_write) ==
    w = read_index /\ written[prev_write] # None

\* FrameBuffer::push(frame)
push(frame) ==
    LET written == [frames EXCEPT ![write_index] = Some(frame)]
        prev_write == write_index
        w == NextIndex(write_index)
        drop == PushDrops(written, w, prev_write)
    IN  /\ frames' = written
        /\ write_index' = w
        /\ read_index' = IF drop THEN NextIndex(read_index) ELSE read_index
        /\ ret' = [op |-> "push", ok |-> ~drop, frame |-> None]
        /\ pushed' = Append(pushed, frame)
        /\ results' = Append(results, ~drop)
        /\ evicted' = IF drop /\ written[read_index] # None
                      THEN evicted \cup {written[read_index][1]}
                      ELSE evicted
        /\ UNCHANGED <<capacity, popped>>

\* FrameBuffer::pop, taking the newest frame instead of the oldest
pop_newest ==
    IF read_index = write_index
    THEN /\ ret' = [op |-> "pop", ok |-> FALSE, frame |-> None]
         /\ UNCHANGED <<capacity, frames, write_index, read_index, pushed,
                        popped, results, evicted>>
    ELSE LET last == (write_index + capacity - 1) % capacity
             frame == frames[last]
         IN  /\ frames' = [frames EXCEPT ![last] = None]
             /\ write_index' = last
             /\ ret' = [op |-> "pop", ok |-> frame # None, frame |-> frame]
             /\ popped' = IF frame # None THEN Append(popped, frame[1]) ELSE popped
             /\ UNCHANGED <<capacity, read_index, pushed, results, evicted>>

\* FrameBuffer::pop
pop ==
    IF read_index = write_index
    THEN /\ ret' = [op |-> "pop", ok |-> FALSE, frame |-> None]
         /\ UNCHANGED <<capacity, frames, write_index, read_index, pushed,
                        popped, results, evicted>>
    ELSE LET frame == frames[read_index]
         IN  /\ frames' = [frames EXCEPT ![read_index] = None]
             /\ read_index' = NextIndex(read_index)
             /\ ret' = [op |-> "pop", ok |-> frame # None, frame |-> frame]
             /\ popped' = IF frame # None THEN Append(popped, frame[1]) ELSE popped
             /\ UNCHANGED <<capacity, write_index, pushed, results, evicted>>

\* FrameBuffer::clear, resetting the cursors and leaving the slots as they are
clear_cursors_only ==
    /\ read_index' = 0
    /\ write_index' = 0
    /\ ret' = [op |-> "clear", ok |-> TRUE, frame |-> None]
    /\ pushed' = <<>>
    /\ popped' = <<>>
    /\ results' = <<>>
    /\ evicted' = {}
    /\ UNCHANGED <<capacity, frames>>

\* FrameBuffer::clear; the histories start over, the buffer is as new
clear ==
    /\ frames' = [i \in DOMAIN frames |-> None]
    /\ read_index' = 0
    /\ write_index' = 0
    /\ ret' = [op |-> "clear", ok |-> TRUE, frame |-> None]
    /\ pushed' = <<>>
    /\ popped' = <<>>
    /\ results' = <<>>
    /\ evicted' = {}
    /\ UNCHANGED capacity

\* ---- the buffer's state machine
\* A pushed frame is named by its metadata.sequence, counting from 0 as in
\* test_frame_buffer.
Push ==
    /\ Len(pushed) < MaxPushes
    /\ push(Len(pushed))
    /\ UNCHANGED <<srvvars, dispvars, frmvars, trkvars, wasmvars>>

Pop == pop /\ UNCHANGED <<srvvars, dispvars, frmvars, trkvars, wasmvars>>

Clear == clear /\ UNCHANGED <<srvvars, dispvars, frmvars, trkvars, wasmvars>>

\* The server at rest, for the specifications that do not drive it
SrvIdle ==
    /\ started = "new"
    /\ shutdown_tx = FALSE
    /\ acceptPc = "none"
    /\ acceptSig = FALSE
    /\ max_clients = 1
    /\ clients = <<>>
    /\ next_client_id = 1
    /\ pc = [c \in 1..MaxConns |-> "none"]
    /\ cid = [c \in 1..MaxConns |-> 0]
    /\ connSig = [c \in 1..MaxConns |-> FALSE]
    /\ fwd = [c \in 1..MaxConns |-> "none"]
    /\ queue = [c \in 1..MaxConns |-> <<>>]

\* No message received, sent or broadcast yet
Quiet ==
    /\ resp = [c \in 1..MaxConns |-> None]
    /\ bcast = [b \in 1..MaxBroadcasts |->
                  [phase |-> "idle", frame |-> None, reg |-> <<>>,
                   todo |-> {}, cur |-> 0, log |-> <<>>]]
    /\ bret = [b \in 1..MaxBroadcasts |-> "none"]
    /\ enq = [c \in 1..MaxConns |-> <<>>]
    /\ wire = [c \in 1..MaxConns |-> <<>>]
    /\ inbound = None
    /\ nmsg = 0
    /\ nbc = 0

\* Quiet, and the delivery histories are not kept
DispIdle ==
    /\ observe = FALSE
    /\ Quiet

\* No Frame at hand, for the specifications that build none
FrmIdle ==
    /\ frm = None
    /\ fret = None

\* No FpsTracker of its own, for the specifications that drive none
TrkIdle ==
    /\ trk = None
    /\ trk_op = "none"
    /\ trk_hist = <<>>
    /\ nrec = 0

\* No WasmSidecar, for the specifications that drive none
WasmIdle ==
    /\ ws = FALSE
    /\ state = "disconnected"
    /\ state_clone = None
    /\ socket = "none"
    /\ state_callback = FALSE
    /\ callback_clone = FALSE
    /\ notified = <<>>
    /\ wlast = "none"
    /\ nev = 0

InitBuf ==
    /\ \E c \in 1..MaxCap : new(c)
    /\ SrvIdle
    /\ DispIdle
    /\ FrmIdle
    /\ TrkIdle
    /\ WasmIdle

NextBuf == Push \/ Pop \/ Clear

SpecBuf == InitBuf /\ [][NextBuf]_vars

\* ======================================================================
\* server.rs : SidecarServer, ServerState, handle_connection
\* ======================================================================
Conns == 1..MaxConns

\* self.clients.len(), as client_count() reads it
client_count == Cardinality(DOMAIN clients)

\* The admission test, off by one
AtCapacityOffByOne == client_count > max_clients

\* The admission test of handle_connection, taken under the write lock
AtCapacity == client_count >= max_clients

\* ---- protocol.rs: the enums and the messages the server sends
\* f64 values (timestamps, rates) are modelled by integers and by pairs of
\* integers; the code copies, compares, subtracts and divides them.
SidecarMode == {"local", "remote", "disabled"}
FrameFormat == {"rgba", "rgb565", "yuv420", "compressed"}

Pong(timestamp, server_time) ==
    [type |-> "pong", timestamp |-> timestamp, serverTime |-> server_time]
ModeAck(mode) ==
    [type |-> "modeAck", mode |-> mode, success |-> TRUE, error |-> None]
FormatAck(format) ==
    [type |-> "formatAck", format |-> format, success |-> TRUE]
FrameAck(sequence) ==
    [type |-> "frameAck", sequence |-> sequence, latency |-> 0]

\* tungstenite Message variants put on a client's channel
Text(json) == [ws |-> "text", text |-> json]
Binary(data) == [ws |-> "binary", data |-> data]
WsPong(data) == [ws |-> "pong", payload |-> data]

\* SidecarConfig::default(), the fields the server reads or writes
DefaultConfig ==
    [mode |-> "local", target_fps |-> Some(60),
     preferred_format |-> Some("rgba")]

\* SidecarStats::default(); current_fps is a fraction <<numerator, denominator>>
DefaultStats ==
    [frames_received |-> 0, frames_dropped |-> 0, avg_latency |-> 0,
     current_fps |-> <<0, 1>>, bytes_transferred |-> 0]

\* transport.rs: FpsTracker::new(max_samples)
FpsTrackerNew(max_samples) == [timestamps |-> <<>>, max_samples |-> max_samples]

\* A record that, at max_samples, drops the new timestamp instead of the
\* oldest
FpsRecordKeepsOldest(t, timestamp) ==
    IF Len(t.timestamps) >= t.max_samples
    THEN t
    ELSE [t EXCEPT !.timestamps = Append(@, timestamp)]

\* FpsTracker::clear
FpsClear(t) == [t EXCEPT !.timestamps = <<>>]

\* FpsTracker::record
FpsRecord(t, timestamp) ==
    [t EXCEPT !.timestamps =
        Append(IF Len(@) >= t.max_samples THEN Tail(@) ELSE @, timestamp)]

\* calculate_fps, as the fraction ((len - 1) * 1000) / duration
calculate_fps(timestamps) ==
    IF Len(timestamps) < 2
    THEN <<0, 1>>
    ELSE LET duration == timestamps[Len(timestamps)] - timestamps[1]
         IN  IF duration <= 0
             THEN <<0, 1>>
             ELSE <<(Len(timestamps) - 1) * 1000, duration>>

\* The Client record add_client builds; conn names the connection whose
\* channel sender (tx) it holds.
NewClient(id, c) ==
    [id |-> id, conn |-> c,
     config |-> DefaultConfig,
     stats |-> DefaultStats,
     fps_tracker |-> FpsTrackerNew(60),
     frame_format |-> "rgba",
     frame_width |-> 640,
     frame_height |-> 480]

\* A removal that empties the map
RemoveAll(m, k) == <<>>

\* A map with one more key / one key fewer (HashMap::insert, HashMap::remove)
Insert(m, k, v) == [x \in DOMAIN m \cup {k} |-> IF x = k THEN v ELSE m[x]]
RemoveKey(m, k) == [x \in DOMAIN m \ {k} |-> m[x]]

\* The broadcast channel is closed once every Sender is dropped: the one in
\* SidecarServer.shutdown_tx and the clone the accept task owns.
ChannelClosed ==
    /\ started = "ok"
    /\ ~shutdown_tx
    /\ acceptPc = "done"

\* The registry lock, excluding nobody
NeverLocked == TRUE

\* The write lock of the registry is free: no broadcast_frame call holds the
\* read lock over its sends. Every other lock holder takes one step.
WriteLockFree == \A b \in DOMAIN bcast : bcast[b].phase # "run"

\* mpsc: tx.send(msg) succeeds while the receiver lives, that is while the
\* forward task that owns rx runs.
ReceiverAlive(c) == fwd[c] = "running"
Enqueue(c, msg) ==
    IF ReceiverAlive(c)
    THEN [queue EXCEPT ![c] = Append(@, msg)]
    ELSE queue

\* The messages tx.send accepted on c's channel, one more if this one is
Sent(c, msg) ==
    IF observe /\ ReceiverAlive(c)
    THEN [enq EXCEPT ![c] = Append(@, msg)]
    ELSE enq

\* ---- SidecarServer::start
\* bind fails: Err(ConnectionFailed), nothing is spawned
StartErr ==
    /\ started = "new"
    /\ started' = "failed"
    /\ UNCHANGED <<shutdown_tx, acceptPc, acceptSig, max_clients, clients,
                   next_client_id, pc, cid, connSig, fwd, queue>>
    /\ UNCHANGED <<bufvars, dispvars, frmvars, trkvars, wasmvars>>

\* bind succeeds: the channel is made (its first receiver dropped at once),
\* shutdown_tx is stored, the accept task is spawned, Ok(()) is returned.
\* The task subscribes only when it first runs. start() is called once, as
\* main.rs does.
StartOk ==
    /\ started = "new"
    /\ started' = "ok"
    /\ shutdown_tx' = TRUE
    /\ acceptPc' = "spawned"
    /\ UNCHANGED <<acceptSig, max_clients, clients, next_client_id, pc, cid,
                   connSig, fwd, queue>>
    /\ UNCHANGED <<bufvars, dispvars, frmvars, trkvars, wasmvars>>

\* ---- SidecarServer::stop
\* take() the sender and send (): every receiver subscribed by now gets the
\* message; with no receiver send fails and the message is gone. The taken
\* sender is dropped.
Subscribed(c) == pc[c] \in {"handshake", "register", "loop", "respond"}
Stop ==
    /\ shutdown_tx
    /\ shutdown_tx' = FALSE
    /\ acceptSig' = (acceptPc = "loop")
    /\ connSig' = [c \in Conns |-> Subscribed(c)]
    /\ UNCHANGED <<started, acceptPc, max_clients, clients, next_client_id,
                   pc, cid, fwd, queue>>
    /\ UNCHANGED <<bufvars, dispvars, frmvars, trkvars, wasmvars>>

\* ---- the accept task spawned by start
\* let mut shutdown_rx = shutdown_tx.subscribe(): sees later messages only
AcceptSubscribe ==
    /\ acceptPc = "spawned"
    /\ acceptPc' = "loop"
    /\ UNCHANGED <<started, shutdown_tx, acceptSig, max_clients, clients,
                   next_client_id, pc, cid, connSig, fwd, queue>>
    /\ UNCHANGED <<bufvars, dispvars, frmvars, trkvars, wasmvars>>

\* listener.accept() = Ok: subscribe a receiver for the connection and spawn
\* handle_connection
AcceptConn(c) ==
    /\ acceptPc = "loop"
    /\ pc[c] = "none"
    /\ \A d \in Conns : d < c => pc[d] # "none"
    /\ pc' = [pc EXCEPT ![c] = "handshake"]
    /\ connSig' = [connSig EXCEPT ![c] = FALSE]
    /\ UNCHANGED <<started, shutdown_tx, acceptPc, acceptSig, max_clients,
                   clients, next_client_id, cid, fwd, queue>>
    /\ UNCHANGED <<bufvars, dispvars, frmvars, trkvars, wasmvars>>

\* shutdown_rx.recv() completes (a message, or the channel closed): break;
\* the task ends and drops the listener and its sender
AcceptShutdown ==
    /\ acceptPc = "loop"
    /\ acceptSig \/ ChannelClosed
    /\ acceptPc' = "done"
    /\ acceptSig' = FALSE
    /\ UNCHANGED <<started, shutdown_tx, max_clients, clients, next_client_id,
                   pc, cid, connSig, fwd, queue>>
    /\ UNCHANGED <<bufvars, dispvars, frmvars, trkvars, wasmvars>>

\* ---- handle_connection
\* accept_async(stream) fails: return
HandshakeErr(c) ==
    /\ pc[c] = "handshake"
    /\ pc' = [pc EXCEPT ![c] = "hs_failed"]
    /\ connSig' = [connSig EXCEPT ![c] = FALSE]
    /\ UNCHANGED <<started, shutdown_tx, acceptPc, acceptSig, max_clients,
                   clients, next_client_id, cid, fwd, queue>>
    /\ UNCHANGED <<bufvars, dispvars, frmvars, trkvars, wasmvars>>

\* accept_async(stream) succeeds; the channel (tx, rx) is made
HandshakeOk(c) ==
    /\ pc[c] = "handshake"
    /\ pc' = [pc EXCEPT ![c] = "register"]
    /\ UNCHANGED <<started, shutdown_tx, acceptPc, acceptSig, max_clients,
                   clients, next_client_id, cid, connSig, fwd, queue>>
    /\ UNCHANGED <<bufvars, dispvars, frmvars, trkvars, wasmvars>>

\* Register client, with next_client_id advanced before the admission test
RegisterCountsFirst(c) ==
    /\ pc[c] = "register"
    /\ WriteLockFree
    /\ next_client_id' = next_client_id + 1
    /\ IF AtCapacity
       THEN /\ pc' = [pc EXCEPT ![c] = "rejected"]
            /\ connSig' = [connSig EXCEPT ![c] = FALSE]
            /\ UNCHANGED <<clients, cid, fwd>>
       ELSE /\ clients' = Insert(clients, next_client_id, NewClient(next_client_id, c))
            /\ cid' = [cid EXCEPT ![c] = next_client_id]
            /\ fwd' = [fwd EXCEPT ![c] = "running"]
            /\ pc' = [pc EXCEPT ![c] = "loop"]
            /\ UNCHANGED connSig
    /\ UNCHANGED <<started, shutdown_tx, acceptPc, acceptSig, max_clients, queue>>
    /\ UNCHANGED <<bufvars, dispvars, frmvars, trkvars, wasmvars>>

\* Registration that hands out the smallest id no registered session has
RegisterReusingIds(c) ==
    /\ pc[c] = "register"
    /\ WriteLockFree
    /\ IF AtCapacity
       THEN /\ pc' = [pc EXCEPT ![c] = "rejected"]
            /\ connSig' = [connSig EXCEPT ![c] = FALSE]
            /\ UNCHANGED <<clients, next_client_id, cid, fwd>>
       ELSE LET id == CHOOSE i \in 1..(MaxConns + 1) :
                          /\ i \notin DOMAIN clients
                          /\ \A j \in 1..(i - 1) : j \in DOMAIN clients
            IN  /\ clients' = Insert(clients, id, NewClient(id, c))
                /\ next_client_id' = next_client_id + 1
                /\ cid' = [cid EXCEPT ![c] = id]
                /\ fwd' = [fwd EXCEPT ![c] = "running"]
                /\ pc' = [pc EXCEPT ![c] = "loop"]
                /\ UNCHANGED connSig
    /\ UNCHANGED <<started, shutdown_tx, acceptPc, acceptSig, max_clients, queue>>
    /\ UNCHANGED <<bufvars, dispvars, frmvars, trkvars, wasmvars>>

\* Register client (under state.write()): at capacity return, dropping the
\* channel and the socket; otherwise add_client, then spawn forward_task and
\* enter the inbound loop
Register(c) ==
    /\ pc[c] = "register"
    /\ WriteLockFree
    /\ IF AtCapacity
       THEN /\ pc' = [pc EXCEPT ![c] = "rejected"]
            /\ connSig' = [connSig EXCEPT ![c] = FALSE]
            /\ UNCHANGED <<clients, next_client_id, cid, fwd>>
       ELSE /\ clients' = Insert(clients, next_client_id, NewClient(next_client_id, c))
            /\ next_client_id' = next_client_id + 1
            /\ cid' = [cid EXCEPT ![c] = next_client_id]
            /\ fwd' = [fwd EXCEPT ![c] = "running"]
            /\ pc' = [pc EXCEPT ![c] = "loop"]
            /\ UNCHANGED connSig
    /\ UNCHANGED <<started, shutdown_tx, acceptPc, acceptSig, max_clients, queue>>
    /\ UNCHANGED <<bufvars, dispvars, frmvars, trkvars, wasmvars>>


\* ---- the inbound loop of handle_connection
\* What a client may send as text. ints stand for the f64 timestamps.
PingInputs == {[type |-> "ping", timestamp |-> t] : t \in {0, 12345}}
ConfigInputs ==
    {None,
     Some([target_fps |-> Some(30), preferred_format |-> None]),
     Some([target_fps |-> None, preferred_format |-> Some("rgb565")])}
SetModeInputs ==
    {[type |-> "setMode", mode |-> m, config |-> cfg] :
        m \in {"remote", "disabled"}, cfg \in ConfigInputs}
SetFormatInputs ==
    {[type |-> "setFormat", format |-> "rgb565", width |-> 320, height |-> 240],
     [type |-> "setFormat", format |-> "yuv420", width |-> 0, height |-> 0]}
FrameInput == [type |-> "frame"]
Malformed == [type |-> "undecodable"]

\* SystemTime::now() in milliseconds: whatever the wall clock shows
Clock == {1000, 1016}

\* One more inbound item taken from ws_rx by connection c
Received(c, item) ==
    /\ nmsg < MaxMsgs
    /\ nmsg' = nmsg + 1
    /\ inbound' = Some([conn |-> c, msg |-> item])

\* The response send of process_message, under the read lock:
\* client.tx.send(Message::Text(json)) if the client is in the registry;
\* a send with the receiver gone is Err(SendFailed), which the caller logs
SendResponse(c, r) ==
    /\ ReceiverAlive(c) => Len(queue[c]) < MaxQueue
    /\ IF cid[c] \in DOMAIN clients
       THEN /\ queue' = Enqueue(c, Text(r))
            /\ enq' = Sent(c, Text(r))
       ELSE UNCHANGED <<queue, enq>>

\* A decode failure that ends the connection
RecvMalformedEnds(c) ==
    /\ pc[c] = "loop"
    /\ Received(c, Malformed)
    /\ pc' = [pc EXCEPT ![c] = "cleanup"]
    /\ fwd' = [fwd EXCEPT ![c] = IF @ = "running" THEN "aborted" ELSE @]
    /\ queue' = [queue EXCEPT ![c] = <<>>]
    /\ UNCHANGED <<started, shutdown_tx, acceptPc, acceptSig, max_clients,
                   clients, next_client_id, cid, connSig>>
    /\ UNCHANGED <<observe, resp, bcast, bret, enq, wire, nbc>>
    /\ UNCHANGED <<bufvars, frmvars, trkvars, wasmvars>>

\* process_message for a text message that does not decode:
\* Err(ProtocolError), logged by the caller; the loop goes on
RecvMalformed(c) ==
    /\ pc[c] = "loop"
    /\ Received(c, Malformed)
    /\ UNCHANGED <<observe, resp, bcast, bret, enq, wire, nbc>>
    /\ UNCHANGED <<bufvars, srvvars, frmvars, trkvars, wasmvars>>

\* process_message for Ping{timestamp}: the Pong is sent on the client's tx
\* under the read lock; a failed send is Err(SendFailed), logged by the
\* caller; the loop goes on
RecvPing(c) ==
    /\ pc[c] = "loop"
    /\ \E m \in PingInputs, now \in Clock :
          /\ Received(c, m)
          /\ SendResponse(c, Pong(m.timestamp, now))
    /\ UNCHANGED <<started, shutdown_tx, acceptPc, acceptSig, max_clients,
                   clients, next_client_id, pc, cid, connSig, fwd>>
    /\ UNCHANGED <<observe, resp, bcast, bret, wire, nbc>>
    /\ UNCHANGED <<bufvars, frmvars, trkvars, wasmvars>>

\* Message::Binary: logged only
RecvBinary(c) ==
    /\ pc[c] = "loop"
    /\ Received(c, [type |-> "binary"])
    /\ UNCHANGED <<observe, resp, bcast, bret, enq, wire, nbc>>
    /\ UNCHANGED <<bufvars, srvvars, frmvars, trkvars, wasmvars>>

\* Message::Ping(data): Message::Pong(data) is sent on the client's tx, the
\* result ignored
RecvWsPing(c) ==
    /\ pc[c] = "loop"
    /\ ReceiverAlive(c) => Len(queue[c]) < MaxQueue
    /\ Received(c, [type |-> "wsping"])
    /\ IF cid[c] \in DOMAIN clients
       THEN /\ queue' = Enqueue(c, WsPong(<<>>))
            /\ enq' = Sent(c, WsPong(<<>>))
       ELSE UNCHANGED <<queue, enq>>
    /\ UNCHANGED <<started, shutdown_tx, acceptPc, acceptSig, max_clients,
                   clients, next_client_id, pc, cid, connSig, fwd>>
    /\ UNCHANGED <<observe, resp, bcast, bret, wire, nbc>>
    /\ UNCHANGED <<bufvars, frmvars, trkvars, wasmvars>>

\* An update that writes the session into every entry of the registry
UpdatedAll(c, session) ==
    IF cid[c] \in DOMAIN clients
    THEN [id \in DOMAIN clients |-> session]
    ELSE clients

\* The session entry of connection c with field f set under the write lock:
\* if let Some(client) = state.clients.get_mut(&client_id.0) { ... }
Updated(c, session) ==
    IF cid[c] \in DOMAIN clients
    THEN [clients EXCEPT ![cid[c]] = session]
    ELSE clients

\* The SetMode arm: mode is set, target_fps and preferred_format are
\* overwritten if the message carries them
SetModeApplied(client, m) ==
    LET cfg == m.config
        fps == IF cfg # None /\ cfg[1].target_fps # None
               THEN cfg[1].target_fps
               ELSE client.config.target_fps
        fmt == IF cfg # None /\ cfg[1].preferred_format # None
               THEN cfg[1].preferred_format
               ELSE client.config.preferred_format
    IN  [client EXCEPT !.config =
            [mode |-> m.mode, target_fps |-> fps, preferred_format |-> fmt]]

\* The SetFormat arm
SetFormatApplied(client, m) ==
    [client EXCEPT !.frame_format = m.format,
                   !.frame_width = m.width,
                   !.frame_height = m.height]

\* The Frame arm without the count: the timestamp is recorded only
FrameNotCounted(client, now) ==
    [client EXCEPT !.fps_tracker = FpsRecord(@, now)]

\* The Frame arm: fps_tracker.record(now); frames_received += 1;
\* current_fps = fps_tracker.fps()
FrameApplied(client, now) ==
    LET tracker == FpsRecord(client.fps_tracker, now)
    IN  [client EXCEPT !.fps_tracker = tracker,
                       !.stats.frames_received = @ + 1,
                       !.stats.current_fps = calculate_fps(tracker.timestamps)]

\* process_message for SetMode / SetFormat, first part: the session is
\* updated under the write lock and the response is built
RecvUpdate(c, m, session, r) ==
    /\ WriteLockFree
    /\ Received(c, m)
    /\ clients' = Updated(c, session)
    /\ resp' = [resp EXCEPT ![c] = Some(r)]
    /\ pc' = [pc EXCEPT ![c] = "respond"]
    /\ UNCHANGED <<started, shutdown_tx, acceptPc, acceptSig, max_clients,
                   next_client_id, cid, connSig, fwd, queue>>
    /\ UNCHANGED <<observe, bcast, bret, enq, wire, nbc>>
    /\ UNCHANGED <<bufvars, frmvars, trkvars, wasmvars>>

RecvSetMode(c) ==
    /\ pc[c] = "loop"
    /\ \E m \in SetModeInputs :
        RecvUpdate(c, m,
                   IF cid[c] \in DOMAIN clients
                   THEN SetModeApplied(clients[cid[c]], m) ELSE None,
                   ModeAck(m.mode))

RecvSetFormat(c) ==
    /\ pc[c] = "loop"
    /\ \E m \in SetFormatInputs :
        RecvUpdate(c, m,
                   IF cid[c] \in DOMAIN clients
                   THEN SetFormatApplied(clients[cid[c]], m) ELSE None,
                   FormatAck(m.format))

\* process_message, second part: the response is sent under the read lock
\* and process_message returns
Respond(c) ==
    /\ pc[c] = "respond"
    /\ SendResponse(c, resp[c][1])
    /\ resp' = [resp EXCEPT ![c] = None]
    /\ pc' = [pc EXCEPT ![c] = "loop"]
    /\ UNCHANGED <<started, shutdown_tx, acceptPc, acceptSig, max_clients,
                   clients, next_client_id, cid, connSig, fwd>>
    /\ UNCHANGED <<observe, bcast, bret, wire, inbound, nmsg, nbc>>
    /\ UNCHANGED <<bufvars, frmvars, trkvars, wasmvars>>

\* process_message for Frame{metadata}: the session's statistics are updated
\* under the write lock; there is no response, Ok(()) is returned
RecvFrame(c) ==
    /\ pc[c] = "loop"
    /\ WriteLockFree
    /\ Received(c, FrameInput)
    /\ \E now \in Clock :
          clients' = Updated(c, IF cid[c] \in DOMAIN clients
                                THEN FrameApplied(clients[cid[c]], now)
                                ELSE None)
    /\ UNCHANGED <<started, shutdown_tx, acceptPc, acceptSig, max_clients,
                   next_client_id, pc, cid, connSig, fwd, queue>>
    /\ UNCHANGED <<observe, resp, bcast, bret, enq, wire, nbc>>
    /\ UNCHANGED <<bufvars, frmvars, trkvars, wasmvars>>

\* Leaving the inbound loop: forward_task.abort() follows the break with no
\* suspension point between; an aborted task drops rx and what it holds.
LeaveLoop(c) ==
    /\ pc' = [pc EXCEPT ![c] = "cleanup"]
    /\ fwd' = [fwd EXCEPT ![c] = IF @ = "running" THEN "aborted" ELSE @]
    /\ queue' = [queue EXCEPT ![c] = <<>>]
    /\ connSig' = [connSig EXCEPT ![c] = FALSE]
    /\ UNCHANGED <<started, shutdown_tx, acceptPc, acceptSig, max_clients,
                   clients, next_client_id, cid>>
    /\ UNCHANGED <<bufvars, dispvars, frmvars, trkvars, wasmvars>>

\* Message::Close, Some(Err(e)) or None from ws_rx.next(): break
RecvEnd(c) ==
    /\ pc[c] = "loop"
    /\ LeaveLoop(c)

\* shutdown_rx.recv() completes (a message, or the channel closed): break
ConnShutdown(c) ==
    /\ pc[c] = "loop"
    /\ connSig[c] \/ ChannelClosed
    /\ LeaveLoop(c)

\* Cleanup: state.write().await.remove_client(&client_id); the task ends
Cleanup(c) ==
    /\ pc[c] = "cleanup"
    /\ WriteLockFree
    /\ clients' = RemoveKey(clients, cid[c])
    /\ pc' = [pc EXCEPT ![c] = "closed"]
    /\ UNCHANGED <<started, shutdown_tx, acceptPc, acceptSig, max_clients,
                   next_client_id, cid, connSig, fwd, queue>>
    /\ UNCHANGED <<bufvars, dispvars, frmvars, trkvars, wasmvars>>

\* ---- forward_task
\* The forward step, taking the newest queued message instead of the oldest
ForwardSendNewest(c) ==
    /\ fwd[c] = "running"
    /\ queue[c] # <<>>
    /\ queue' = [queue EXCEPT ![c] = SubSeq(@, 1, Len(@) - 1)]
    /\ wire' = IF observe
               THEN [wire EXCEPT ![c] = Append(@, queue[c][Len(queue[c])])]
               ELSE wire
    /\ UNCHANGED <<started, shutdown_tx, acceptPc, acceptSig, max_clients,
                   clients, next_client_id, pc, cid, connSig, fwd>>
    /\ UNCHANGED <<observe, resp, bcast, bret, enq, inbound, nmsg, nbc>>
    /\ UNCHANGED <<bufvars, frmvars, trkvars, wasmvars>>

\* rx.recv() yields the oldest queued message and ws_tx.send(msg) succeeds
ForwardSend(c) ==
    /\ fwd[c] = "running"
    /\ queue[c] # <<>>
    /\ queue' = [queue EXCEPT ![c] = Tail(@)]
    /\ wire' = IF observe
               THEN [wire EXCEPT ![c] = Append(@, Head(queue[c]))]
               ELSE wire
    /\ UNCHANGED <<started, shutdown_tx, acceptPc, acceptSig, max_clients,
                   clients, next_client_id, pc, cid, connSig, fwd>>
    /\ UNCHANGED <<observe, resp, bcast, bret, enq, inbound, nmsg, nbc>>
    /\ UNCHANGED <<bufvars, frmvars, trkvars, wasmvars>>

\* ws_tx.send(msg) fails: break; the task ends and drops rx with its queue
ForwardFail(c) ==
    /\ fwd[c] = "running"
    /\ queue[c] # <<>>
    /\ fwd' = [fwd EXCEPT ![c] = "failed"]
    /\ queue' = [queue EXCEPT ![c] = <<>>]
    /\ UNCHANGED <<started, shutdown_tx, acceptPc, acceptSig, max_clients,
                   clients, next_client_id, pc, cid, connSig>>
    /\ UNCHANGED <<bufvars, dispvars, frmvars, trkvars, wasmvars>>

\* ---- SidecarServer::broadcast_frame
\* The frames a caller may broadcast: metadata.sequence and data
BroadcastFrames ==
    {[sequence |-> 7, data |-> <<1, 2>>], [sequence |-> 8, data |-> <<>>]}

\* One tx.send of a broadcast to the client id, entered in the call's log;
\* cur and todo say where the loop over the clients stands afterwards
BroadcastSend(b, id, msg, cur, todo) ==
    LET c == clients[id].conn
    IN  /\ ReceiverAlive(c) => Len(queue[c]) < MaxQueue
        /\ queue' = Enqueue(c, msg)
        /\ enq' = Sent(c, msg)
        /\ bcast' = [bcast EXCEPT ![b] =
                        [@ EXCEPT !.log = Append(@, [id |-> id, msg |-> msg,
                                                     ok |-> ReceiverAlive(c)]),
                                  !.cur = cur,
                                  !.todo = todo]]

\* The call takes the read lock and serialises FrameAck{sequence, latency: 0.0};
\* the clients it will visit are those of the registry, in any order
BroadcastBegin(b) ==
    /\ b = nbc + 1
    /\ b <= MaxBroadcasts
    /\ nbc' = b
    /\ \E f \in BroadcastFrames :
          bcast' = [bcast EXCEPT ![b] =
                       [phase |-> "run", frame |-> Some(f), reg |-> clients,
                        todo |-> DOMAIN clients, cur |-> 0, log |-> <<>>]]
    /\ UNCHANGED <<observe, bret, enq, wire, inbound, nmsg, resp>>
    /\ UNCHANGED <<bufvars, srvvars, frmvars, trkvars, wasmvars>>

Broadcasting(b) == bcast[b].phase = "run"

\* client.tx.send(Message::Text(json)) for the next client; an error is
\* logged and the loop goes on
BroadcastAck(b) ==
    /\ Broadcasting(b)
    /\ bcast[b].cur = 0
    /\ \E id \in bcast[b].todo :
          BroadcastSend(b, id, Text(FrameAck(bcast[b].frame[1].sequence)),
                        id, bcast[b].todo)
    /\ UNCHANGED <<started, shutdown_tx, acceptPc, acceptSig, max_clients,
                   clients, next_client_id, pc, cid, connSig, fwd>>
    /\ UNCHANGED <<observe, bret, wire, inbound, nmsg, nbc, resp>>
    /\ UNCHANGED <<bufvars, frmvars, trkvars, wasmvars>>

\* client.tx.send(Message::Binary(frame.data.clone())) for the same client
BroadcastData(b) ==
    /\ Broadcasting(b)
    /\ bcast[b].cur # 0
    /\ BroadcastSend(b, bcast[b].cur, Binary(bcast[b].frame[1].data),
                     0, bcast[b].todo \ {bcast[b].cur})
    /\ UNCHANGED <<started, shutdown_tx, acceptPc, acceptSig, max_clients,
                   clients, next_client_id, pc, cid, connSig, fwd>>
    /\ UNCHANGED <<observe, bret, wire, inbound, nmsg, nbc, resp>>
    /\ UNCHANGED <<bufvars, frmvars, trkvars, wasmvars>>

\* Every client visited: the read lock is released and Ok(()) returned
BroadcastEnd(b) ==
    /\ Broadcasting(b)
    /\ bcast[b].cur = 0
    /\ bcast[b].todo = {}
    /\ bcast' = [bcast EXCEPT ![b].phase = "done"]
    /\ bret' = [bret EXCEPT ![b] = "Ok"]
    /\ UNCHANGED <<observe, enq, wire, inbound, nmsg, nbc, resp>>
    /\ UNCHANGED <<bufvars, srvvars, frmvars, trkvars, wasmvars>>

\* ---- the server's state machine
\* One FrameBuffer at rest, for the specifications that do not drive it
BufIdle == new(1)

\* SidecarServer::new(config), nothing started
ServerNew ==
    /\ started = "new"
    /\ shutdown_tx = FALSE
    /\ acceptPc = "none"
    /\ acceptSig = FALSE
    /\ max_clients \in 1..MaxMaxClients
    /\ clients = <<>>
    /\ next_client_id = 1
    /\ pc = [c \in Conns |-> "none"]
    /\ cid = [c \in Conns |-> 0]
    /\ connSig = [c \in Conns |-> FALSE]
    /\ fwd = [c \in Conns |-> "none"]
    /\ queue = [c \in Conns |-> <<>>]

InitSrv ==
    /\ BufIdle
    /\ ServerNew
    /\ DispIdle
    /\ FrmIdle
    /\ TrkIdle
    /\ WasmIdle

\* The same server, with the delivery histories kept
InitOrder ==
    /\ BufIdle
    /\ ServerNew
    /\ observe = TRUE
    /\ Quiet
    /\ FrmIdle
    /\ TrkIdle
    /\ WasmIdle

\* ---- the same server configured with room for every connection, so that
\* several sessions are registered at once
ServerWithRoom ==
    /\ started = "new"
    /\ shutdown_tx = FALSE
    /\ acceptPc = "none"
    /\ acceptSig = FALSE
    /\ max_clients = MaxConns
    /\ clients = <<>>
    /\ next_client_id = 1
    /\ pc = [c \in Conns |-> "none"]
    /\ cid = [c \in Conns |-> 0]
    /\ connSig = [c \in Conns |-> FALSE]
    /\ fwd = [c \in Conns |-> "none"]
    /\ queue = [c \in Conns |-> <<>>]

InitRoom ==
    /\ BufIdle
    /\ ServerWithRoom
    /\ DispIdle
    /\ FrmIdle
    /\ TrkIdle
    /\ WasmIdle

ServerStep ==
    \/ StartErr
    \/ StartOk
    \/ Stop
    \/ AcceptSubscribe
    \/ AcceptShutdown

ConnStep(c) ==
    \/ AcceptConn(c)
    \/ HandshakeErr(c)
    \/ HandshakeOk(c)
    \/ Register(c)
    \/ RecvMalformed(c)
    \/ RecvPing(c)
    \/ RecvBinary(c)
    \/ RecvWsPing(c)
    \/ RecvEnd(c)
    \/ ConnShutdown(c)
    \/ Cleanup(c)
    \/ ForwardSend(c)
    \/ ForwardFail(c)

NextSrv == ServerStep \/ \E c \in Conns : ConnStep(c)

\* The same steps and a request answered in two parts, for the order of
\* delivery
NextOrder == NextSrv \/ \E c \in Conns : RecvSetFormat(c) \/ Respond(c)

SpecSrv == InitSrv /\ [][NextSrv]_vars

SpecOrder == InitOrder /\ [][NextOrder]_vars

\* ---- the server with every kind of inbound message and with broadcasts,
\* for the properties of message dispatch. start() succeeds, handshakes
\* succeed and stop() is not called: a connection leaves its loop through
\* RecvEnd, which does what ConnShutdown does.
DispServerStep ==
    \/ StartOk
    \/ AcceptSubscribe
    \/ \E b \in 1..MaxBroadcasts :
          \/ BroadcastBegin(b)
          \/ BroadcastAck(b)
          \/ BroadcastData(b)
          \/ BroadcastEnd(b)

DispConnStep(c) ==
    \/ AcceptConn(c)
    \/ HandshakeOk(c)
    \/ Register(c)
    \/ RecvMalformed(c)
    \/ RecvPing(c)
    \/ RecvSetMode(c)
    \/ RecvSetFormat(c)
    \/ RecvFrame(c)
    \/ Respond(c)
    \/ RecvBinary(c)
    \/ RecvWsPing(c)
    \/ RecvEnd(c)
    \/ Cleanup(c)
    \/ ForwardSend(c)
    \/ ForwardFail(c)

NextDisp == DispServerStep \/ \E c \in Conns : DispConnStep(c)

SpecDisp == InitSrv /\ [][NextDisp]_vars

\* ---- message dispatch on several sessions at once: the server with room
\* for every connection, every kind of inbound message, no broadcast
NextPair ==
    \/ StartOk
    \/ AcceptSubscribe
    \/ \E c \in Conns : DispConnStep(c)

SpecPair == InitRoom /\ [][NextPair]_vars

\* The scheduler runs every task that can take a step: the accept task, each
\* handle_connection task at its lock acquisitions and at a completed
\* shutdown_rx.recv(), and each forward task. What the peers and the caller
\* of stop() do is not forced.
Fairness ==
    /\ WF_vars(AcceptSubscribe)
    /\ WF_vars(AcceptShutdown)
    /\ \A c \in Conns :
          /\ WF_vars(Register(c))
          /\ WF_vars(ConnShutdown(c))
          /\ WF_vars(Cleanup(c))
          /\ WF_vars(ForwardSend(c) \/ ForwardFail(c))

FairSrv == SpecSrv /\ Fairness

\* ---- the server with room for every connection, all its steps
SpecRoom == InitRoom /\ [][NextSrv]_vars

FairRoom == SpecRoom /\ Fairness

\* ---- the server with any limit from one session to all connections
InitAnyLimit == InitSrv \/ InitRoom

SpecAnyLimit == InitAnyLimit /\ [][NextSrv]_vars

\* ======================================================================
\* frame.rs : Frame
\* ======================================================================
\* usize values are little-endian sequences of base-256 digits, so that a
\* product beyond the machine word can be told from its wrapped value.
\* Digits(n): the four digits of a u32 (here n < 2^31)
Digits(n) == [i \in 1..4 |-> (n \div (256 ^ (i - 1))) % 256]

DigitAt(d, i) == IF i \in 1..Len(d) THEN d[i] ELSE 0

\* Two digit sequences denote the same number
SameNumber(a, b) ==
    \A i \in 1..(Len(a) + Len(b)) : DigitAt(a, i) = DigitAt(b, i)

RECURSIVE ColSum(_, _, _, _)
ColSum(a, b, k, i) ==
    IF i > Len(a)
    THEN 0
    ELSE a[i] * DigitAt(b, k + 1 - i) + ColSum(a, b, k, i + 1)

RECURSIVE MulFrom(_, _, _, _)
MulFrom(a, b, k, carry) ==
    IF k > Len(a) + Len(b)
    THEN <<>>
    ELSE LET t == ColSum(a, b, k, 1) + carry
         IN  <<t % 256>> \o MulFrom(a, b, k + 1, t \div 256)

\* The exact product of two numbers
Product(a, b) == MulFrom(a, b, 1, 0)

\* a * b in usize of w bytes: the wrapped value, and whether it overflowed
UsizeMul(a, b, w) ==
    LET exact == Product(a, b)
    IN  [value |-> [i \in 1..w |-> DigitAt(exact, i)],
         overflow |-> \E i \in (w + 1)..Len(exact) : exact[i] # 0]

\* The builds of the crate: usize is 4 bytes on wasm32 and 8 bytes on the
\* native targets; arithmetic overflow panics with overflow checks (the dev
\* profile) and wraps without (the release profile).
Builds == [usize_bytes : {4, 8}, overflow_checks : BOOLEAN]

\* Result<T, FrameError>, or the panic of an overflowing multiplication
Ok(v) == [tag |-> "Ok", value |-> v]
Err(e) == [tag |-> "Err", error |-> e]
Panic == [tag |-> "panic"]

SizeMismatch(expected, actual) ==
    [kind |-> "SizeMismatch", expected |-> expected, actual |-> actual]
UnsupportedConversion(from, to) ==
    [kind |-> "UnsupportedConversion", from |-> from, to |-> to]
\* Declared in FrameError; no code of Frame builds it
InvalidDimensions(width, height) ==
    [kind |-> "InvalidDimensions", width |-> width, height |-> height]

\* protocol.rs: FrameFormat::bytes_per_pixel
bytes_per_pixel(format) ==
    CASE format = "rgba" -> Some(4)
      [] format = "rgb565" -> Some(2)
      [] OTHER -> None

\* Frame::expected_size: pixels = width as usize * height as usize, then
\* bytes_per_pixel().map(|bpp| pixels * bpp)
expected_size(metadata, build) ==
    LET w == build.usize_bytes
        pixels == UsizeMul(Digits(metadata.width), Digits(metadata.height), w)
        bpp == bytes_per_pixel(metadata.format)
        bytes == UsizeMul(pixels.value, Digits(bpp[1]), w)
    IN  IF bpp = None
        THEN [size |-> None, overflow |-> pixels.overflow]
        ELSE [size |-> Some(bytes.value),
              overflow |-> pixels.overflow \/ bytes.overflow]

\* Frame::new
Frame_new(metadata, data, build) ==
    LET expected == expected_size(metadata, build)
    IN  IF expected.overflow /\ build.overflow_checks
        THEN Panic
        ELSE IF /\ expected.size # None
                /\ ~SameNumber(Digits(Len(data)), expected.size[1])
             THEN Err(SizeMismatch(expected.size[1], Len(data)))
             ELSE Ok([metadata |-> metadata, data |-> data])

\* x << n and x >> n on an unsigned integer of w bits: the bits shifted
\* beyond the width are lost
Shl(x, n, w) == (x * 2 ^ n) % 2 ^ w
Shr(x, n) == x \div 2 ^ n

\* a | b, bit by bit
RECURSIVE BitOr(_, _)
BitOr(a, b) ==
    IF a = 0 THEN b
    ELSE IF b = 0 THEN a
    ELSE (IF a % 2 = 1 \/ b % 2 = 1 THEN 1 ELSE 0)
         + 2 * BitOr(a \div 2, b \div 2)

\* u16::to_le_bytes and u16::from_le_bytes
to_le_bytes(x) == <<x % 256, x \div 256>>
from_le_bytes(lo, hi) == lo + 256 * hi

\* rgba_to_rgb565 with the two bytes of each word in big-endian order
RECURSIVE rgba_to_rgb565_be(_)
rgba_to_rgb565_be(data) ==
    IF Len(data) < 4
    THEN <<>>
    ELSE LET rgb565 == (data[1] \div 8) * 2048 + (data[2] \div 4) * 32
                       + (data[3] \div 8)
         IN  <<rgb565 \div 256, rgb565 % 256>>
             \o rgba_to_rgb565_be(SubSeq(data, 5, Len(data)))

\* rgb565_to_rgba that shifts each field up and leaves the low bits clear
RECURSIVE rgb565_to_rgba_shift_only(_)
rgb565_to_rgba_shift_only(data) ==
    IF Len(data) < 2
    THEN <<>>
    ELSE LET rgb565 == data[1] + data[2] * 256
             r == (rgb565 \div 2048) % 32
             g == (rgb565 \div 32) % 64
             b == rgb565 % 32
         IN  <<r * 8, g * 4, b * 8, 255>>
             \o rgb565_to_rgba_shift_only(SubSeq(data, 3, Len(data)))

\* rgba_to_rgb565 that rounds each channel to the nearest 5- or 6-bit value
\* (saturating) instead of truncating it
RECURSIVE rgba_to_rgb565_rounding(_)
rgba_to_rgb565_rounding(data) ==
    IF Len(data) < 4
    THEN <<>>
    ELSE LET r == IF data[1] + 4 > 255 THEN 31 ELSE (data[1] + 4) \div 8
             g == IF data[2] + 2 > 255 THEN 63 ELSE (data[2] + 2) \div 4
             b == IF data[3] + 4 > 255 THEN 31 ELSE (data[3] + 4) \div 8
             rgb565 == r * 2048 + g * 32 + b
         IN  to_le_bytes(rgb565)
             \o rgba_to_rgb565_rounding(SubSeq(data, 5, Len(data)))

\* Frame::rgba_to_rgb565: each whole chunk of 4 bytes gives the u16 word
\* ((r >> 3) << 11) | ((g >> 2) << 5) | (b >> 3), little-endian
RECURSIVE rgba_to_rgb565(_)
rgba_to_rgb565(data) ==
    IF Len(data) < 4
    THEN <<>>
    ELSE LET r == data[1]
             g == data[2]
             b == data[3]
             rgb565 == BitOr(BitOr(Shl(Shr(r, 3), 11, 16),
                                   Shl(Shr(g, 2), 5, 16)),
                             Shr(b, 3))
         IN  to_le_bytes(rgb565)
             \o rgba_to_rgb565(SubSeq(data, 5, Len(data)))

\* Frame::rgb565_to_rgba: each whole chunk of 2 bytes gives r, g, b as u8,
\* widened to 8 bits by (r << 3) | (r >> 2) and so on, and alpha 255
RECURSIVE rgb565_to_rgba(_)
rgb565_to_rgba(data) ==
    IF Len(data) < 2
    THEN <<>>
    ELSE LET rgb565 == from_le_bytes(data[1], data[2])
             r == Shr(rgb565, 11) % 32
             g == Shr(rgb565, 5) % 64
             b == rgb565 % 32
         IN  <<BitOr(Shl(r, 3, 8), Shr(r, 2)),
               BitOr(Shl(g, 2, 8), Shr(g, 4)),
               BitOr(Shl(b, 3, 8), Shr(b, 2)),
               255>>
             \o rgb565_to_rgba(SubSeq(data, 3, Len(data)))

\* convert, relabelling the frame where no conversion exists
convertLenient(self, target_format, build) ==
    LET from == self.metadata.format
        new_metadata == [self.metadata EXCEPT !.format = target_format]
    IN  IF from = "rgba" /\ target_format = "rgb565"
        THEN Frame_new(new_metadata, rgba_to_rgb565(self.data), build)
        ELSE IF from = "rgb565" /\ target_format = "rgba"
        THEN Frame_new(new_metadata, rgb565_to_rgba(self.data), build)
        ELSE Ok([metadata |-> new_metadata, data |-> self.data])

\* convert, without the test for an unchanged format
convertNoShortcut(self, target_format, build) ==
    LET from == self.metadata.format
        new_metadata == [self.metadata EXCEPT !.format = target_format]
    IN  IF from = "rgba" /\ target_format = "rgb565"
        THEN Frame_new(new_metadata, rgba_to_rgb565(self.data), build)
        ELSE IF from = "rgb565" /\ target_format = "rgba"
        THEN Frame_new(new_metadata, rgb565_to_rgba(self.data), build)
        ELSE Err(UnsupportedConversion(from, target_format))

\* Frame::convert
convert(self, target_format, build) ==
    LET from == self.metadata.format
        new_metadata == [self.metadata EXCEPT !.format = target_format]
    IN  IF from = target_format
        THEN Ok(self)
        ELSE IF from = "rgba" /\ target_format = "rgb565"
        THEN Frame_new(new_metadata, rgba_to_rgb565(self.data), build)
        ELSE IF from = "rgb565" /\ target_format = "rgba"
        THEN Frame_new(new_metadata, rgb565_to_rgba(self.data), build)
        ELSE Err(UnsupportedConversion(from, target_format))

\* ---- the frames and calls explored
\* Byte sequences of length n over the byte values used
RECURSIVE SeqsOfLen(_, _)
SeqsOfLen(S, n) ==
    IF n = 0
    THEN {<<>>}
    ELSE {Append(q, x) : q \in SeqsOfLen(S, n - 1), x \in S}

Payloads == UNION {SeqsOfLen({0, 255}, n) : n \in 0..MaxData}

\* Widths and heights: none, small, and 2^16, whose square is 2^32
Dims == {0, 1, 2, 65536}

FrameMetadata ==
    [sequence : {7}, timestamp : {1000}, width : Dims, height : Dims,
     format : FrameFormat, keyframe : BOOLEAN]

\* Frame::new(frm.metadata, frm.data) is called. A run makes one call: the
\* calls are pure and leave the frame as it is.
FrameNew ==
    /\ fret = None
    /\ \E build \in Builds :
          fret' = [op |-> "new", build |-> build,
                   result |-> Frame_new(frm.metadata, frm.data, build)]
    /\ UNCHANGED frm
    /\ UNCHANGED <<bufvars, srvvars, dispvars, trkvars, wasmvars>>

\* frm.convert(target_format) is called; &self is not changed
Convert ==
    /\ fret = None
    /\ \E target_format \in FrameFormat, build \in Builds :
          fret' = [op |-> "convert", target_format |-> target_format,
                   build |-> build,
                   result |-> convert(frm, target_format, build)]
    /\ UNCHANGED frm
    /\ UNCHANGED <<bufvars, srvvars, dispvars, trkvars, wasmvars>>

\* Any Frame value: the fields are public, so a Frame need not have passed
\* Frame::new
InitFrame ==
    /\ frm \in [metadata : FrameMetadata, data : Payloads]
    /\ fret = None
    /\ TrkIdle
    /\ WasmIdle
    /\ BufIdle
    /\ SrvIdle
    /\ DispIdle

NextFrame == FrameNew \/ Convert

SpecFrame == InitFrame /\ [][NextFrame]_vars

\* ---- the pixel conversions, on frames that Frame::new has built
\* Colour channel values around the edges of the 5- and 6-bit fields
Channels == {0, 3, 4, 7, 8, 128, 251, 255}
Alphas == {0, 128, 255}

\* Every u16 word, as its two little-endian bytes
Words == {<<lo, hi>> : lo \in 0..255, hi \in 0..255}

SomeRgbaPixels == {<<255, 0, 0, 255>>, <<0, 255, 0, 0>>, <<8, 4, 8, 7>>}
SomeWords == {<<0, 0>>, <<255, 255>>, <<31, 0>>, <<224, 7>>}

PixelMetadata(width, height, format, keyframe) ==
    [sequence |-> 7, timestamp |-> 1000, width |-> width, height |-> height,
     format |-> format, keyframe |-> keyframe]

\* rgba frames: one pixel of each combination of the channel values, two
\* pixels, the 2x2 frame of all-255 bytes, and a frame of no pixel
RgbaFrames ==
    {[metadata |-> PixelMetadata(1, 1, "rgba", FALSE),
      data |-> <<r, g, b, a>>] :
        r \in Channels, g \in Channels, b \in Channels, a \in Alphas}
    \cup {[metadata |-> PixelMetadata(2, 1, "rgba", k), data |-> p \o q] :
             p \in SomeRgbaPixels, q \in SomeRgbaPixels, k \in BOOLEAN}
    \cup {[metadata |-> PixelMetadata(2, 2, "rgba", k),
           data |-> [i \in 1..16 |-> 255]] : k \in BOOLEAN}
    \cup {[metadata |-> PixelMetadata(0, 2, "rgba", TRUE), data |-> <<>>]}

\* rgb565 frames: one pixel of every word, two pixels, and a frame of no
\* pixel
Rgb565Frames ==
    {[metadata |-> PixelMetadata(1, 1, "rgb565", TRUE), data |-> d] :
        d \in Words}
    \cup {[metadata |-> PixelMetadata(1, 2, "rgb565", k), data |-> p \o q] :
             p \in SomeWords, q \in SomeWords, k \in BOOLEAN}
    \cup {[metadata |-> PixelMetadata(0, 2, "rgb565", TRUE), data |-> <<>>]}

\* The builds the pixel conversions are run in: a frame of a few pixels is
\* far from the usize limit, so one build of each word size and of each
\* overflow behaviour is taken
PixelBuilds ==
    {[usize_bytes |-> 4, overflow_checks |-> TRUE],
     [usize_bytes |-> 8, overflow_checks |-> FALSE]}

\* frm.convert(target_format) is called on one of these frames
ConvertPixels ==
    /\ fret = None
    /\ \E target_format \in FrameFormat, build \in PixelBuilds :
          fret' = [op |-> "convert", target_format |-> target_format,
                   build |-> build,
                   result |-> convert(frm, target_format, build)]
    /\ UNCHANGED frm
    /\ UNCHANGED <<bufvars, srvvars, dispvars, trkvars, wasmvars>>

\* The frames are those Frame::new returns: the payload is as long as the
\* dimensions and the format require
InitRgba ==
    /\ frm \in RgbaFrames
    /\ fret = None
    /\ TrkIdle
    /\ WasmIdle
    /\ BufIdle
    /\ SrvIdle
    /\ DispIdle

InitRgb565 ==
    /\ frm \in Rgb565Frames
    /\ fret = None
    /\ TrkIdle
    /\ WasmIdle
    /\ BufIdle
    /\ SrvIdle
    /\ DispIdle

NextPixel == ConvertPixels

SpecRgba == InitRgba /\ [][NextPixel]_vars

SpecRgb565 == InitRgb565 /\ [][NextPixel]_vars

\* ---- a conversion followed by a conversion of its result
\* The formats that convert() has a conversion between
PixelFormats == {"rgba", "rgb565"}

\* frm.convert(Rgba) is called on one of the rgb565 frames
ConvertToRgba ==
    /\ fret = None
    /\ \E build \in PixelBuilds :
          fret' = [op |-> "convert", target_format |-> "rgba",
                   build |-> build,
                   result |-> convert(frm, "rgba", build)]
    /\ UNCHANGED frm
    /\ UNCHANGED <<bufvars, srvvars, dispvars, trkvars, wasmvars>>

\* convert(target_format) is called on the frame the first call returned,
\* in the same build; the frame the first call was made on is kept as
\* origin
ConvertResult ==
    /\ fret # None
    /\ fret.op = "convert"
    /\ fret.result.tag = "Ok"
    /\ \E target_format \in PixelFormats :
          /\ frm' = fret.result.value
          /\ fret' = [op |-> "convert_result",
                      target_format |-> target_format,
                      build |-> fret.build,
                      origin |-> frm,
                      result |-> convert(fret.result.value, target_format,
                                         fret.build)]
    /\ UNCHANGED <<bufvars, srvvars, dispvars, trkvars, wasmvars>>

NextRoundTrip == ConvertToRgba \/ ConvertResult

SpecRoundTrip == InitRgb565 /\ [][NextRoundTrip]_vars

\* ======================================================================
\* transport.rs : FpsTracker
\* ======================================================================
MaxSamples == 3    \* max_samples is drawn from 1..MaxSamples
MaxRecords == 5    \* record() calls on one tracker

\* The f64 timestamps a caller may record, in milliseconds
Timestamps == {1000, 1016, 1033}

\* tracker.record(timestamp)
Record ==
    /\ nrec < MaxRecords
    /\ nrec' = nrec + 1
    /\ \E timestamp \in Timestamps :
          /\ trk' = FpsRecord(trk, timestamp)
          /\ trk_hist' = Append(trk_hist, timestamp)
    /\ trk_op' = "record"
    /\ UNCHANGED <<bufvars, srvvars, dispvars, frmvars, wasmvars>>

\* tracker.clear()
TrackerClear ==
    /\ trk' = FpsClear(trk)
    /\ trk_hist' = <<>>
    /\ trk_op' = "clear"
    /\ UNCHANGED nrec
    /\ UNCHANGED <<bufvars, srvvars, dispvars, frmvars, wasmvars>>

\* FpsTracker::new(max_samples), max_samples >= 1
InitFps ==
    /\ \E max_samples \in 1..MaxSamples : trk = FpsTrackerNew(max_samples)
    /\ trk_op = "new"
    /\ trk_hist = <<>>
    /\ nrec = 0
    /\ BufIdle
    /\ SrvIdle
    /\ DispIdle
    /\ FrmIdle
    /\ WasmIdle

NextFps == Record \/ TrackerClear

SpecFps == InitFps /\ [][NextFps]_vars

\* ======================================================================
\* wasm.rs : WasmSidecar
\* ======================================================================
MaxCalls == 4      \* calls on one WasmSidecar

ConnectionState == {"disconnected", "connecting", "connected", "error"}

\* set_state: self.state = state, and the state callback, if one is set, is
\* called with the state's name
set_state(s) ==
    /\ state' = s
    /\ notified' = IF state_callback THEN Append(notified, s) ELSE notified

\* One more call on the WasmSidecar
Called(op) ==
    /\ nev < MaxCalls
    /\ nev' = nev + 1
    /\ wlast' = op

\* connect(url) while self.ws is Some: Err("Already connected")
ConnectAlready ==
    /\ ws
    /\ Called("connect_already")
    /\ UNCHANGED <<ws, state, state_clone, socket, state_callback,
                   callback_clone, notified>>
    /\ UNCHANGED <<bufvars, srvvars, dispvars, frmvars, trkvars>>

\* connect(url), WebSocket::new(url) throws (a malformed url): the state
\* was set to Connecting before; Err, self.ws stays None
ConnectErr ==
    /\ ~ws
    /\ Called("connect_err")
    /\ set_state("connecting")
    /\ UNCHANGED <<ws, state_clone, socket, state_callback, callback_clone>>
    /\ UNCHANGED <<bufvars, srvvars, dispvars, frmvars, trkvars>>

\* connect(url) succeeds: set_state(Connecting), a new socket, a new cell
\* state_clone = Connecting for its closures, self.ws = Some(ws). What an
\* earlier socket still reports goes to its own cell and is not followed.
ConnectOk ==
    /\ ~ws
    /\ Called("connect_ok")
    /\ set_state("connecting")
    /\ socket' = "connecting"
    /\ state_clone' = Some("connecting")
    /\ callback_clone' = state_callback
    /\ ws' = TRUE
    /\ UNCHANGED state_callback
    /\ UNCHANGED <<bufvars, srvvars, dispvars, frmvars, trkvars>>

\* The socket event, as the closure sees it: the cell is written, and the
\* closures of open and close call their clone of the state callback
Event(name, cell, to) ==
    /\ wlast' = name
    /\ state_clone' = Some(cell)
    /\ socket' = to
    /\ notified' = IF callback_clone /\ name # "error"
                   THEN Append(notified, cell)
                   ELSE notified
    /\ UNCHANGED <<ws, state, state_callback, callback_clone, nev>>
    /\ UNCHANGED <<bufvars, srvvars, dispvars, frmvars, trkvars>>

\* onopen: *state.borrow_mut() = ConnectionState::Connected
SocketOpen ==
    /\ socket = "connecting"
    /\ Event("open", "connected", "open")

\* onerror: *state.borrow_mut() = ConnectionState::Error; the browser
\* closes the socket afterwards
SocketError ==
    /\ socket \in {"connecting", "open"}
    /\ Event("error", "error", "failed")

\* onclose: *state.borrow_mut() = ConnectionState::Disconnected; the peer
\* closed, or close() or a failure came before
SocketClose ==
    /\ socket \in {"open", "closing", "failed"}
    /\ Event("close", "disconnected", "closed")

\* disconnect(): self.ws.take(), ws.close() on it, set_state(Disconnected)
Disconnect ==
    /\ Called("disconnect")
    /\ ws' = FALSE
    /\ socket' = IF ws /\ socket \in {"connecting", "open"}
                 THEN "closing"
                 ELSE socket
    /\ set_state("disconnected")
    /\ UNCHANGED <<state_clone, state_callback, callback_clone>>
    /\ UNCHANGED <<bufvars, srvvars, dispvars, frmvars, trkvars>>

\* on_state_change(callback): self.state_callback = Some(callback)
OnStateChange ==
    /\ Called("on_state_change")
    /\ state_callback' = TRUE
    /\ UNCHANGED <<ws, state, state_clone, socket, callback_clone, notified>>
    /\ UNCHANGED <<bufvars, srvvars, dispvars, frmvars, trkvars>>

\* get_state(): the name of self.state
get_state == state

\* WasmSidecar::new()
InitWasm ==
    /\ ws = FALSE
    /\ state = "disconnected"
    /\ state_clone = None
    /\ socket = "none"
    /\ state_callback = FALSE
    /\ callback_clone = FALSE
    /\ notified = <<>>
    /\ wlast = "new"
    /\ nev = 0
    /\ BufIdle
    /\ SrvIdle
    /\ DispIdle
    /\ FrmIdle
    /\ TrkIdle

NextWasm ==
    \/ ConnectAlready
    \/ ConnectErr
    \/ ConnectOk
    \/ SocketOpen
    \/ SocketError
    \/ SocketClose
    \/ Disconnect
    \/ OnStateChange

SpecWasm == InitWasm /\ [][NextWasm]_vars

\* ======================================================================
\* Properties of the server (checked under SpecSrv and FairSrv)
\* ======================================================================

\* C6: in every reachable state the number of registered sessions is at
\* most max_clients.
ClientCountBounded == client_count <= max_clients

\* C6 witness: the registry is full while another connection has passed its
\* handshake and waits for the admission test, or was rejected by it.
FullWithContender ==
    /\ client_count = max_clients
    /\ \E c \in Conns : pc[c] \in {"register", "rejected"}

\* C7: a connection that reaches the admission test while
\* client_count >= max_clients is rejected and the step changes neither the
\* registry, nor next_client_id, nor any forward task or queue.
RejectLeavesRegistry ==
    [][\A c \in Conns :
          (pc[c] = "register" /\ pc'[c] # "register"
                              /\ client_count >= max_clients) =>
              /\ pc'[c] = "rejected"
              /\ UNCHANGED <<clients, next_client_id, cid, fwd, queue>>]_vars

\* C7 witness: a connection was rejected while a session is registered.
RejectedWhileFull ==
    \E c \in Conns :
        /\ pc[c] = "rejected"
        /\ client_count >= max_clients
        /\ clients # <<>>

\* stop() was called after start() returned Ok
StopCalled == started = "ok" /\ ~shutdown_tx

\* C8: once start() returned Ok, a later stop() eventually ends the accept
\* loop, which releases the listening socket.
StopEndsAcceptLoop == StopCalled ~> (acceptPc = "done")

\* C9: after stop(), every registered session is eventually removed, its
\* inbound loop left and its forward task ended, and client_count
\* eventually becomes 0.
StopEmptiesRegistry ==
    /\ StopCalled ~> (client_count = 0)
    /\ \A c \in Conns :
          (StopCalled /\ pc[c] = "loop") ~>
              (pc[c] = "closed" /\ fwd[c] # "running"
                                /\ cid[c] \notin DOMAIN clients)

\* C10: when forwarding a queued message to a connection's socket fails,
\* that connection's tasks end and its session is removed; the failing step
\* leaves every other connection as it was.
SendFailureRemovesSession ==
    /\ \A c \in Conns :
          (fwd[c] = "failed") ~> (pc[c] = "closed" /\ cid[c] \notin DOMAIN clients)
    /\ [][\A c \in Conns :
             (fwd[c] = "running" /\ fwd'[c] = "failed") =>
                 /\ clients' = clients
                 /\ \A d \in Conns \ {c} :
                       /\ pc'[d] = pc[d]
                       /\ fwd'[d] = fwd[d]
                       /\ queue'[d] = queue[d]]_vars

\* C25: whenever a connection's inbound loop exits (close frame, end of
\* stream, receive error or shutdown signal) its forward task is terminated
\* by that step, and its session is then removed: the removal takes exactly
\* its own id out of the registry and leaves every other session registered
\* with its fields as they were; a session leaves the registry in no other
\* way, and no closed connection has a session.
LoopExitRemovesOwnSession ==
    /\ [][\A c \in Conns :
             /\ (pc[c] = "loop" /\ pc'[c] # "loop") =>
                    /\ pc'[c] = "cleanup"
                    /\ fwd'[c] \in {"aborted", "failed"}
             /\ (pc[c] = "cleanup" /\ pc'[c] # "cleanup") =>
                    /\ pc'[c] = "closed"
                    /\ DOMAIN clients' = DOMAIN clients \ {cid[c]}
                    /\ \A id \in DOMAIN clients' : clients'[id] = clients[id]
             /\ (cid[c] \in DOMAIN clients /\ cid[c] \notin DOMAIN clients') =>
                    (pc[c] = "cleanup" /\ pc'[c] = "closed")]_vars
    /\ [](\A c \in Conns :
             pc[c] = "closed" =>
                 (cid[c] \notin DOMAIN clients /\ fwd[c] # "running"))
    /\ \A c \in Conns :
          (pc[c] = "cleanup") ~>
              (pc[c] = "closed" /\ cid[c] \notin DOMAIN clients)

\* A connection that left its loop is closed and unregistered, its forward
\* task aborted, while another session is still registered
ClosedBesideLiveSession ==
    \E c \in Conns, d \in Conns :
        /\ c # d
        /\ pc[c] = "closed"
        /\ cid[c] # 0
        /\ cid[c] \notin DOMAIN clients
        /\ fwd[c] = "aborted"
        /\ cid[d] \in DOMAIN clients
        /\ pc[d] \in {"loop", "cleanup"}

\* The ids add_client has handed out so far
AssignedIds == {cid[c] : c \in Conns} \ {0}

\* C27: connection ids are assigned in strictly increasing order starting
\* at 1: each newly registered session gets an id greater than every id
\* assigned before, so no id is used twice, also not after its session was
\* removed, and no two registered sessions share an id.
IdsStrictlyIncrease ==
    /\ [](/\ AssignedIds = 1..(next_client_id - 1)
          /\ \A c \in Conns, d \in Conns :
                (cid[c] # 0 /\ cid[c] = cid[d]) => c = d
          /\ DOMAIN clients \subseteq AssignedIds
          /\ \A id \in DOMAIN clients :
                /\ clients[id].id = id
                /\ cid[clients[id].conn] = id)
    /\ [][\A c \in Conns :
             cid'[c] # cid[c] =>
                 /\ cid[c] = 0
                 /\ \A id \in AssignedIds : cid'[c] > id
                 /\ cid'[c] \notin DOMAIN clients
                 /\ cid'[c] \in DOMAIN clients'
                 /\ \A d \in Conns \ {c} : cid'[d] = cid[d]]_vars

\* With room for one session only: the session of id 1 was removed and the
\* next connection was registered, as id 2
SecondIdAfterRemoval ==
    \E c \in Conns, d \in Conns :
        /\ max_clients = 1
        /\ cid[c] = 1
        /\ pc[c] = "closed"
        /\ cid[d] = 2
        /\ DOMAIN clients = {2}

\* ======================================================================
\* Properties of FrameBuffer (checked under SpecBuf)
\* ======================================================================
Min(a, b) == IF a <= b THEN a ELSE b
Max(a, b) == IF a >= b THEN a ELSE b

\* C1: a buffer of capacity C retains the C most recently pushed frames:
\* after n pushes and no pop, len() = min(n, C), exactly the first C pushes
\* returned true, and the next pop() is the frame pushed at position
\* max(0, n - C).
RetainsCapacityNewest ==
    (popped = <<>>) =>
        LET n == Len(pushed) IN
        /\ len = Min(n, capacity)
        /\ \A i \in 1..n : results[i] = (i <= capacity)
        /\ (n > 0) => /\ Contents # <<>>
                      /\ Head(Contents) = Some(pushed[Max(0, n - capacity) + 1])

PushLosesOnlyOldest ==
    [][(Len(pushed') = Len(pushed) + 1) =>
          IF ret'.ok
          THEN Contents' = Append(Contents, Some(pushed'[Len(pushed')]))
          ELSE /\ Contents # <<>>
               /\ Contents' = Append(Tail(Contents), Some(pushed'[Len(pushed')]))]_vars

\* The sequence numbers of the live frames, oldest first
ContentIds == [i \in 1..Len(Contents) |-> Contents[i][1]]
NotEvicted(f) == f \notin evicted
StrictlyIncreasing(s) == \A i, j \in 1..Len(s) : i < j => s[i] < s[j]
FalseResults == {i \in 1..Len(results) : ~results[i]}

\* C4: pop() returns the pushed frames in push order, every one except those
\* a false-returning push evicted and those still buffered; len() counts the
\* pushed frames neither popped nor evicted.
FifoOrder ==
    /\ \A i \in 1..Len(Contents) : Contents[i] # None
    /\ StrictlyIncreasing(popped)
    /\ SelectSeq(pushed, NotEvicted) = popped \o ContentIds
    /\ Cardinality(evicted) = Cardinality(FalseResults)
    /\ len = Len(pushed) - Len(popped) - Cardinality(evicted)

\* C4 witness: frames were popped after an eviction, with frames still
\* buffered and the newest popped frame pushed after the evicted one.
PoppedAfterEviction ==
    /\ evicted # {}
    /\ popped # <<>>
    /\ Contents # <<>>
    /\ \E e \in evicted : popped[Len(popped)] > e

\* C5: a push into an empty buffer returns true and leaves exactly that
\* frame buffered, for every capacity including 1.
PushIntoEmptySucceeds ==
    [][(Len(pushed') = Len(pushed) + 1 /\ is_empty) =>
          /\ ret'.ok
          /\ len' = 1
          /\ Contents' = <<Some(pushed'[Len(pushed')])>>]_vars

\* C32: after any sequence of push, pop and clear on a buffer of capacity
\* C >= 1, every slot from the read cursor up to, not including, the write
\* cursor holds a frame; pop() returns None exactly when the buffer is
\* empty, and then changes nothing; otherwise it returns the frame at the
\* read cursor and len() decreases by exactly 1; clear() leaves the buffer
\* empty, both cursors at 0 and every slot vacated.
LiveSlotsPopAndClear ==
    /\ [](\A i \in 1..Len(Contents) : Contents[i] # None)
    /\ [][(ret'.op = "pop") =>
             /\ (ret'.frame = None) <=> is_empty
             /\ IF is_empty
                THEN /\ len = 0
                     /\ UNCHANGED <<capacity, frames, write_index,
                                    read_index>>
                ELSE /\ ret'.frame = frames[read_index]
                     /\ ret'.frame # None
                     /\ len' = len - 1
                     /\ Contents' = Tail(Contents)]_vars
    /\ [][(ret'.op = "clear") =>
             /\ is_empty'
             /\ len' = 0
             /\ read_index' = 0
             /\ write_index' = 0
             /\ \A i \in DOMAIN frames' : frames'[i] = None
             /\ UNCHANGED capacity]_vars

\* C32 witness: the last live frame was popped after the cursors wrapped
\* and a frame was evicted; the buffer is empty although a slot outside the
\* live range still holds the evicted frame.
PoppedLastWithStaleSlot ==
    /\ ret.op = "pop"
    /\ ret.frame # None
    /\ evicted # {}
    /\ Len(popped) >= 2
    /\ is_empty
    /\ \E i \in DOMAIN frames : frames[i] # None

\* ======================================================================
\* Properties of message dispatch (checked under SpecDisp)
\* ======================================================================

\* This step is connection c taking the inbound item m from its socket
Dispatches(c, m) ==
    /\ pc[c] = "loop"
    /\ nmsg' = nmsg + 1
    /\ inbound' = Some([conn |-> c, msg |-> m])

\* msg is a text message carrying SidecarToEmulatorMessage::Error
IsError(msg) == msg.ws = "text" /\ msg.text.type = "error"

\* C11: when a registered connection sends a control message that does not
\* decode, an error protocol message is enqueued on that connection's
\* outbound queue.
MalformedYieldsError ==
    [][\A c \in Conns :
          (Dispatches(c, Malformed) /\ cid[c] \in DOMAIN clients) =>
              /\ Len(queue'[c]) = Len(queue[c]) + 1
              /\ IsError(queue'[c][Len(queue'[c])])]_vars

\* The sends of call b addressed to the client id, in the order made
RECURSIVE SendsTo(_, _)
SendsTo(log, id) ==
    IF log = <<>>
    THEN <<>>
    ELSE IF Head(log).id = id
         THEN <<Head(log).msg>> \o SendsTo(Tail(log), id)
         ELSE SendsTo(Tail(log), id)

PingYieldsPong ==
    [][\A c \in Conns : \A m \in PingInputs :
          (Dispatches(c, m) /\ cid[c] \in DOMAIN clients) =>
              /\ \E now \in Clock :
                    queue' = [queue EXCEPT ![c] =
                                 Append(@, [ws |-> "text",
                                            text |-> [type |-> "pong",
                                                      timestamp |-> m.timestamp,
                                                      serverTime |-> now]])]
              /\ clients' = clients]_vars

\* Connection c is sending the response r it built: the second part of
\* process_message
Responds(c, r) == pc[c] = "respond" /\ resp[c] = <<r>> /\ pc'[c] # "respond"

\* Every session but that of connection c stays as it is, and the same ids
\* are registered
OthersKept(c) ==
    /\ DOMAIN clients' = DOMAIN clients
    /\ \A id \in DOMAIN clients \ {cid[c]} : clients'[id] = clients[id]

\* C15: dispatching SetMode{mode, config?} on a registered connection sets
\* the session's mode, overwrites target_fps and preferred_format only when
\* the message carries them, leaves the negotiated format, the dimensions and
\* the statistics alone, and enqueues exactly one ModeAck{mode, success: true}
\* without error on that connection.
SetModeAcked ==
    [][\A c \in Conns : \A m \in SetModeInputs :
          LET before == clients[cid[c]]
              after == clients'[cid[c]]
              ack == [type |-> "modeAck", mode |-> m.mode, success |-> TRUE,
                      error |-> None]
          IN  /\ (Dispatches(c, m) /\ cid[c] \in DOMAIN clients) =>
                    /\ OthersKept(c)
                    /\ after.config.mode = m.mode
                    /\ after.config.target_fps =
                          IF m.config # None /\ m.config[1].target_fps # None
                          THEN m.config[1].target_fps
                          ELSE before.config.target_fps
                    /\ after.config.preferred_format =
                          IF m.config # None /\ m.config[1].preferred_format # None
                          THEN m.config[1].preferred_format
                          ELSE before.config.preferred_format
                    /\ after.frame_format = before.frame_format
                    /\ after.frame_width = before.frame_width
                    /\ after.frame_height = before.frame_height
                    /\ after.stats = before.stats
                    /\ after.fps_tracker = before.fps_tracker
                    /\ resp'[c] = <<ack>>
                    /\ queue' = queue
              /\ (Responds(c, ack) /\ cid[c] \in DOMAIN clients) =>
                    /\ clients' = clients
                    /\ queue' = [queue EXCEPT ![c] =
                                    Append(@, [ws |-> "text", text |-> ack])]]_vars

\* C16: dispatching SetFormat{format, width, height} on a registered
\* connection sets the session's format, width and height to the values
\* given, whatever they are, and enqueues exactly one
\* FormatAck{format, success: true} on that connection; the session holds the
\* values of the last SetFormat.
SetFormatAcked ==
    /\ [](\A c \in Conns : \A m \in SetFormatInputs :
            (inbound = <<[conn |-> c, msg |-> m]>> /\ cid[c] \in DOMAIN clients) =>
                /\ clients[cid[c]].frame_format = m.format
                /\ clients[cid[c]].frame_width = m.width
                /\ clients[cid[c]].frame_height = m.height)
    /\ [][\A c \in Conns : \A m \in SetFormatInputs :
            LET before == clients[cid[c]]
                after == clients'[cid[c]]
                ack == [type |-> "formatAck", format |-> m.format,
                        success |-> TRUE]
            IN  /\ (Dispatches(c, m) /\ cid[c] \in DOMAIN clients) =>
                      /\ OthersKept(c)
                      /\ after = [before EXCEPT !.frame_format = m.format,
                                           !.frame_width = m.width,
                                           !.frame_height = m.height]
                      /\ resp'[c] = <<ack>>
                      /\ queue' = queue
                /\ (Responds(c, ack) /\ cid[c] \in DOMAIN clients) =>
                      /\ clients' = clients
                      /\ queue' = [queue EXCEPT ![c] =
                                      Append(@, [ws |-> "text", text |-> ack])]]_vars

\* C17: dispatching a frame announcement on a registered connection adds 1
\* to the session's frames_received and records one timestamp in its rate
\* tracker, enqueues nothing and prepares no response, and leaves
\* frames_dropped, bytes_transferred, the mode and the negotiated format and
\* dimensions alone; a session starts at 0 and nothing else changes the
\* count, so after n announcements it is n.
FrameAnnouncementCounted ==
    [][/\ \A c \in Conns :
             LET before == clients[cid[c]]
                 after == clients'[cid[c]]
             IN  (Dispatches(c, FrameInput) /\ cid[c] \in DOMAIN clients) =>
                    /\ OthersKept(c)
                    /\ after.stats.frames_received =
                          before.stats.frames_received + 1
                    /\ \E now \in Clock :
                          after.fps_tracker.timestamps =
                              Append(before.fps_tracker.timestamps, now)
                    /\ after.stats.frames_dropped = before.stats.frames_dropped
                    /\ after.stats.bytes_transferred =
                          before.stats.bytes_transferred
                    /\ after.config = before.config
                    /\ after.frame_format = before.frame_format
                    /\ after.frame_width = before.frame_width
                    /\ after.frame_height = before.frame_height
                    /\ queue' = queue
                    /\ resp' = resp
                    /\ pc' = pc
       /\ \A id \in DOMAIN clients' :
             IF id \in DOMAIN clients
             THEN clients'[id].stats.frames_received #
                      clients[id].stats.frames_received =>
                  \E c \in Conns : cid[c] = id /\ Dispatches(c, FrameInput)
             ELSE clients'[id].stats.frames_received = 0]_vars

\* A session has counted two announcements, and nothing is queued for it
TwoFramesAnnounced ==
    \E id \in DOMAIN clients :
        /\ clients[id].stats.frames_received = 2
        /\ Len(clients[id].fps_tracker.timestamps) = 2
        /\ queue[clients[id].conn] = <<>>

\* ======================================================================
\* Properties of delivery order (checked under SpecOrder)
\* ======================================================================
IsPrefix(s, t) == Len(s) <= Len(t) /\ SubSeq(t, 1, Len(s)) = s

\* C13: the messages enqueued on a connection's channel are handed to its
\* socket in enqueue order, none twice and none out of turn: what the socket
\* took is a prefix of what was enqueued, and while the forward task lives
\* the rest is the queue; the response to a request is enqueued, after all
\* earlier messages, before the connection takes its next request.
DeliveredInEnqueueOrder ==
    /\ [](\A c \in Conns :
            /\ IsPrefix(wire[c], enq[c])
            /\ ReceiverAlive(c) => enq[c] = wire[c] \o queue[c])
    /\ [][\A c \in Conns :
            /\ \A m \in PingInputs :
                  (Dispatches(c, m) /\ ReceiverAlive(c)) =>
                      /\ Len(enq'[c]) = Len(enq[c]) + 1
                      /\ SubSeq(enq'[c], 1, Len(enq[c])) = enq[c]
                      /\ enq'[c][Len(enq'[c])].text.type = "pong"
                      /\ enq'[c][Len(enq'[c])].text.timestamp = m.timestamp
                      /\ pc'[c] = "loop"
            /\ \A m \in SetFormatInputs :
                  Dispatches(c, m) =>
                      /\ pc'[c] = "respond"
                      /\ resp'[c] = <<[type |-> "formatAck",
                                       format |-> m.format, success |-> TRUE]>>
            /\ (pc[c] = "respond" /\ pc'[c] # "respond" /\ ReceiverAlive(c)) =>
                  /\ enq'[c] = Append(enq[c], [ws |-> "text", text |-> resp[c][1]])
                  /\ pc'[c] = "loop"]_vars

\* A socket has taken two different messages of its connection
TwoDelivered ==
    \E c \in Conns : Len(wire[c]) >= 2 /\ wire[c][1] # wire[c][2]

\* C24: on every connection's channel the binary payload of a broadcast
\* frame comes right after the FrameAck of the same broadcast_frame call:
\* between the two sends of a call to one client, nothing else (a response,
\* a transport pong, a message of another call) is put on that client's
\* channel.
DataFollowsAck ==
    [][\A b \in DOMAIN bcast, c \in Conns :
          (/\ Broadcasting(b)
           /\ bcast[b].cur # 0
           /\ cid[c] = bcast[b].cur
           /\ Len(queue'[c]) > Len(queue[c])) =>
              /\ queue'[c] = Append(queue[c], Binary(bcast[b].frame[1].data))
              /\ bcast'[b].cur = 0]_vars

\* ======================================================================
\* Properties of dispatch on several sessions (checked under SpecPair)
\* ======================================================================

\* C26: a control message that fails to decode changes no session's fields
\* and not the registry; the connection that sent it stays registered, and
\* its inbound loop is back at its head, where the next message is taken.
MalformedChangesNothing ==
    /\ [][\A c \in Conns :
             Dispatches(c, Malformed) =>
                 /\ clients' = clients
                 /\ cid[c] \in DOMAIN clients'
                 /\ pc'[c] = "loop"
                 /\ fwd' = fwd
                 /\ queue' = queue]_vars
    /\ [](\A c \in Conns :
             (/\ inbound = Some([conn |-> c, msg |-> Malformed])
              /\ pc[c] = "loop"
              /\ nmsg < MaxMsgs) => ENABLED RecvBinary(c))

\* A connection whose mode an earlier SetMode had changed received a
\* message that does not decode, beside a second registered session: the
\* changed mode is still there
MalformedAfterSetMode ==
    \E c \in Conns :
        /\ inbound = Some([conn |-> c, msg |-> Malformed])
        /\ nmsg = 2
        /\ pc[c] = "loop"
        /\ cid[c] \in DOMAIN clients
        /\ clients[cid[c]].config.mode # DefaultConfig.mode
        /\ Cardinality(DOMAIN clients) = 2

\* The control messages process_message decodes
ControlInputs ==
    PingInputs \cup SetModeInputs \cup SetFormatInputs \cup {FrameInput}

\* C28: dispatching a SetMode, SetFormat, frame announcement or Ping for
\* connection c, whatever the other connections are doing, touches only c's
\* session: every other session's fields, every other connection's channel
\* and pending response, and the set of registered ids stay as they are.
\* (Both parts of a dispatch are covered: the update and the response.)
DispatchTouchesOwnSessionOnly ==
    [][\A c \in Conns :
          ((\E m \in ControlInputs : Dispatches(c, m))
           \/ (pc[c] = "respond" /\ pc'[c] # "respond")) =>
              /\ OthersKept(c)
              /\ \A d \in Conns \ {c} :
                    /\ queue'[d] = queue[d]
                    /\ resp'[d] = resp[d]
                    /\ pc'[d] = pc[d]
                    /\ fwd'[d] = fwd[d]
                    /\ cid'[d] = cid[d]]_vars

\* Two sessions are registered; a SetFormat on one of them has changed its
\* format and been answered, while the other session still has the fields it
\* was registered with and its own reply waiting in its channel
OneSessionChangedBesideAnother ==
    \E c \in Conns, d \in Conns :
        /\ c # d
        /\ cid[c] \in DOMAIN clients
        /\ cid[d] \in DOMAIN clients
        /\ inbound # None
        /\ inbound[1].conn = c
        /\ inbound[1].msg \in SetFormatInputs
        /\ pc[c] = "loop"
        /\ clients[cid[c]].frame_format = inbound[1].msg.format
        /\ clients[cid[d]] = NewClient(cid[d], d)
        /\ queue[d] # <<>>
        /\ queue[c] # <<>>

\* ======================================================================
\* Properties of Frame (checked under SpecFrame)
\* ======================================================================

\* C18: Frame::new(metadata, data) fails with SizeMismatch{expected, actual}
\* exactly when the format has a fixed number of bytes per pixel (rgba 4,
\* rgb565 2) and data.len() differs from width * height * bytes per pixel,
\* with expected that product and actual = data.len(); otherwise it succeeds
\* and keeps metadata and data as given.
NewChecksSize ==
    (fret # None /\ fret.op = "new") =>
        LET m == frm.metadata
            fixed == m.format \in {"rgba", "rgb565"}
            bpp == IF m.format = "rgba" THEN 4 ELSE 2
            exact == Product(Product(Digits(m.width), Digits(m.height)),
                             Digits(bpp))
        IN  IF fixed /\ ~SameNumber(Digits(Len(frm.data)), exact)
            THEN /\ fret.result.tag = "Err"
                 /\ fret.result.error.kind = "SizeMismatch"
                 /\ SameNumber(fret.result.error.expected, exact)
                 /\ fret.result.error.actual = Len(frm.data)
            ELSE fret.result = [tag |-> "Ok", value |-> frm]

\* The call made was frm.convert(to), on a frame of format from
Converted(from, to) ==
    /\ fret # None
    /\ fret.op = "convert"
    /\ frm.metadata.format = from
    /\ fret.target_format = to

Unsupported(from, to) ==
    [tag |-> "Err",
     error |-> [kind |-> "UnsupportedConversion", from |-> from, to |-> to]]

\* C19: convert between any two different formats, neither of them rgba or
\* rgb565, fails with UnsupportedConversion.
OtherFormatsUnsupported ==
    \A from, to \in {"yuv420", "compressed"} :
        (Converted(from, to) /\ from # to) =>
            fret.result = Unsupported(from, to)

\* C19 as stated: every pair of formats drawn from yuv420 and compressed,
\* a format paired with itself included, fails with UnsupportedConversion.
AllOtherPairsUnsupported ==
    \A from, to \in {"yuv420", "compressed"} :
        Converted(from, to) => fret.result = Unsupported(from, to)

\* A yuv420 frame with a payload was asked to become compressed
Yuv420ToCompressedTried ==
    Converted("yuv420", "compressed") /\ frm.data # <<>>

\* C20: converting a frame to its own format, whichever it is, succeeds and
\* returns a frame with the same payload and the same metadata, and the
\* source frame is as it was.
SameFormatIsIdentity ==
    [][\A format \in {"rgba", "rgb565", "yuv420", "compressed"} :
          (/\ fret = None
           /\ frm.metadata.format = format
           /\ fret' # None
           /\ fret'.op = "convert"
           /\ fret'.target_format = format) =>
              /\ fret'.result = [tag |-> "Ok", value |-> frm]
              /\ frm' = frm]_vars

\* A frame whose payload does not fit its dimensions was converted to its
\* own format
MisfitConvertedToOwnFormat ==
    /\ Converted(frm.metadata.format, frm.metadata.format)
    /\ frm.metadata.format = "rgba"
    /\ frm.metadata.width = 1
    /\ frm.metadata.height = 1
    /\ Len(frm.data) = 3

\* C23: Frame::new on metadata whose width or height is zero fails with
\* InvalidDimensions, for every format and payload.
ZeroDimensionsRejected ==
    (/\ fret # None
     /\ fret.op = "new"
     /\ (frm.metadata.width = 0 \/ frm.metadata.height = 0)) =>
        fret.result =
            Err(InvalidDimensions(frm.metadata.width, frm.metadata.height))

\* ======================================================================
\* Properties of the pixel conversions (checked under SpecRgba, SpecRgb565)
\* ======================================================================

\* The frame's payload is as long as its dimensions and format require
MeetsSizeInvariant(f) ==
    LET m == f.metadata
    IN  /\ m.format \in {"rgba", "rgb565"}
        /\ SameNumber(Digits(Len(f.data)),
                      Product(Product(Digits(m.width), Digits(m.height)),
                              Digits(IF m.format = "rgba" THEN 4 ELSE 2)))

\* C21: converting a valid rgba frame to rgb565 succeeds; the new frame has
\* the same width, height, sequence, timestamp and keyframe, its payload has
\* width * height * 2 bytes, and its i-th little-endian 16-bit word is
\* ((R >> 3) << 11) | ((G >> 2) << 5) | (B >> 3) of the i-th source pixel,
\* whatever the alpha; for an all-255 payload every word is 0xFFFF.
RgbaToRgb565Packs ==
    (Converted("rgba", "rgb565") /\ MeetsSizeInvariant(frm)) =>
        /\ fret.result.tag = "Ok"
        /\ LET m == frm.metadata
               out == fret.result.value
               pixels == m.width * m.height
               word(i) == out.data[2 * i - 1] + 256 * out.data[2 * i]
           IN  /\ out.metadata = [m EXCEPT !.format = "rgb565"]
               /\ Len(out.data) = pixels * 2
               /\ \A i \in 1..pixels :
                     LET R == frm.data[4 * i - 3]
                         G == frm.data[4 * i - 2]
                         B == frm.data[4 * i - 1]
                     IN  word(i) = (R \div 8) * 2048 + (G \div 4) * 32
                                   + (B \div 8)
               /\ (\A k \in 1..Len(frm.data) : frm.data[k] = 255) =>
                     \A i \in 1..pixels : word(i) = 65535

\* The 2x2 frame of all-255 bytes was converted to rgb565: four words 0xFFFF
AllWhiteConverted ==
    /\ Converted("rgba", "rgb565")
    /\ frm.metadata.width = 2
    /\ frm.metadata.height = 2
    /\ frm.data = [i \in 1..16 |-> 255]
    /\ fret.result.tag = "Ok"
    /\ fret.result.value.data = [i \in 1..8 |-> 255]

\* C22: converting a valid rgb565 frame to rgba succeeds and gives
\* width * height * 4 bytes; for each pixel with 5/6/5-bit fields r, g, b
\* the bytes are (r << 3) | (r >> 2), (g << 2) | (g >> 4),
\* (b << 3) | (b >> 2) and 255, each of them in 0..255 with no bit lost.
Rgb565ToRgbaWidens ==
    (Converted("rgb565", "rgba") /\ MeetsSizeInvariant(frm)) =>
        /\ fret.result.tag = "Ok"
        /\ LET m == frm.metadata
               out == fret.result.value
               pixels == m.width * m.height
           IN  /\ out.metadata = [m EXCEPT !.format = "rgba"]
               /\ Len(out.data) = pixels * 4
               /\ \A k \in 1..Len(out.data) : out.data[k] \in 0..255
               /\ \A i \in 1..pixels :
                     LET w == frm.data[2 * i - 1] + 256 * frm.data[2 * i]
                         r == (w \div 2048) % 32
                         g == (w \div 32) % 64
                         b == w % 32
                     IN  /\ out.data[4 * i - 3] = r * 8 + r \div 4
                         /\ out.data[4 * i - 2] = g * 4 + g \div 16
                         /\ out.data[4 * i - 1] = b * 8 + b \div 4
                         /\ out.data[4 * i] = 255

\* The word 0x8410 (r = 16, g = 32, b = 16) was converted: the top bit of
\* each field is copied into the low bits
MidGreyWidened ==
    /\ Converted("rgb565", "rgba")
    /\ frm.data = <<16, 132>>
    /\ fret.result.tag = "Ok"
    /\ fret.result.value.data = <<132, 130, 132, 255>>

\* C31: for every rgb565 frame, converting it to rgba and the result back
\* to rgb565 succeeds twice and returns the original payload byte for byte,
\* for each of the 65536 values of a 16-bit word: the >> 3, >> 2, >> 3 of
\* the packing undoes the 5/6/5 widening.
Rgb565RoundTrips ==
    (/\ fret # None
     /\ fret.op = "convert_result"
     /\ fret.origin.metadata.format = "rgb565"
     /\ frm.metadata.format = "rgba"
     /\ fret.target_format = "rgb565") =>
        /\ fret.result.tag = "Ok"
        /\ fret.result.value.data = fret.origin.data
        /\ fret.result.value = fret.origin

\* The word 0x8420 (r = 16, g = 33, b = 0, whose widened green 134 is not
\* a multiple of 4) went to rgba and back
MidWordWentRoundTrip ==
    /\ fret # None
    /\ fret.op = "convert_result"
    /\ fret.origin.data = <<32, 132>>
    /\ frm.data = <<132, 134, 0, 255>>
    /\ fret.target_format = "rgb565"
    /\ fret.result.tag = "Ok"
    /\ fret.result.value.data = <<32, 132>>

\* ======================================================================
\* Properties of FpsTracker (checked under SpecFps)
\* ======================================================================

\* C29: after n record() calls on a tracker made with max_samples = N >= 1
\* (n counted since the tracker was new or last cleared) the tracker holds
\* exactly the min(n, N) most recently recorded timestamps, in the order
\* they were recorded, so never more than N; after clear() it holds none.
TrackerKeepsNewestSamples ==
    LET n == Len(trk_hist)
        N == trk.max_samples
        k == Min(n, N)
    IN  /\ trk.timestamps = SubSeq(trk_hist, n - k + 1, n)
        /\ Len(trk.timestamps) <= N
        /\ trk_op = "clear" => trk.timestamps = <<>>

\* A tracker of two samples after a third record, the first timestamp
\* different from the second: the first is gone
OldestSampleDropped ==
    /\ trk.max_samples = 2
    /\ trk_op = "record"
    /\ Len(trk_hist) = 3
    /\ trk_hist[1] # trk_hist[2]
    /\ trk.timestamps = <<trk_hist[2], trk_hist[3]>>

\* ======================================================================
\* Properties of WasmSidecar (checked under SpecWasm)
\* ======================================================================

\* C30: get_state() follows the connection state machine: it is connecting
\* after a connect() that succeeded, connected once the socket's open event
\* has fired, error once its error event has fired, and disconnected once
\* its close event has fired or disconnect() was called.
StateFollowsSocket ==
    /\ wlast = "connect_ok" => get_state = "connecting"
    /\ wlast = "open" => get_state = "connected"
    /\ wlast = "error" => get_state = "error"
    /\ wlast \in {"close", "disconnect"} => get_state = "disconnected"
====
